---------------------------- MODULE Spec2Model ----------------------------
(***************************************************************************)
(* A model of the filter / aggregate / rank pipeline of the COP dashboard  *)
(* (app.py and pages/*.py).  A page run is: read the CSV, normalise it,    *)
(* build the sidebar options, apply the mask, then aggregate and rank.     *)
(***************************************************************************)
EXTENDS Integers, Sequences, FiniteSets, TLC

VARIABLES
    page,            \* which script is running
    file,            \* the CSV as read: a sequence of raw rows
    df,              \* the DataFrame after the page's load step
    pc,              \* position of the run
    selected_langs,  \* value of the "Language" multiselect
    selected_cops,   \* value of the "COP" multiselect
    filtered_df,     \* df[mask].copy()
    filtered_twice,  \* the same mask construction applied to filtered_df
    shares,          \* TRUE iff filtered_df is backed by df's data
    top_n,           \* the N handed to the ranking
    top_authors,     \* result of compute_top_authors_by_category
    selected_category_for_table,  \* value of the category selectbox
    table_df,        \* the table handed to st.dataframe
    summary,         \* the KPIs of render_summary
    domain_counts,   \* the web-domain counts handed to the chart or table
    stat_type,       \* value of the "Select what to display" radio
    top_labels,      \* the top-N labels of a frequency view, in rank order
    chart_df,        \* the rows handed to the stacked bar chart
    evolution        \* the per-COP evolution tables handed to the line charts

filterVars == <<page, file, df, selected_langs, selected_cops, shares, filtered_twice>>

viewVars == <<stat_type, top_labels, chart_df, evolution>>

rankVars == <<top_n, top_authors, selected_category_for_table, table_df, summary,
              domain_counts, viewVars>>

vars == <<page, file, df, pc, selected_langs, selected_cops, filtered_df,
          filtered_twice, shares, top_n, top_authors, selected_category_for_table,
          table_df, summary, domain_counts, stat_type, top_labels, chart_df, evolution>>

-----------------------------------------------------------------------------
(* Bounds of the model *)

MaxRows == 2

\* rows of the filtered categorization table handed to the ranking
MaxRankRows == 4

\* largest value of the "Number of top authors" slider that is tried
MaxTopN == 2

\* rows of the table whose extracted_domains cells are counted
MaxDomainRows == 2

\* characters in one extracted_domains cell
MaxCellLen == 3

-----------------------------------------------------------------------------
(* Values *)

\* a missing string value (NaN)
NA == "NaN"

\* an empty CSV field, which the reader loads as NaN
EmptyCell == <<>>

Pages == {"Actors", "Categories", "Most_active_users", "Other_stats"}

\* language cells of the CSV
LangCells == {"en", "fr", NA}

\* COP cells of the CSV, as text: two numeric ones, one that neither pandas
\* nor float() parses, and two that float() parses and pandas does not (the
\* reader's missing-value spellings are case sensitive, float("NAN") is nan)
CopCells ==
    { <<"2", "6">>, <<"2", "7">>, <<"a", "b", "c">>, <<"1", "_", "0">>,
      <<"N", "A", "N">> }

\* entity cells of entity_frequencies.csv
Entities == { <<"u", "n">>, <<"u", "n", " ", "(", "O", ")">> }

DigitChars == <<"0", "1", "2", "3", "4", "5", "6", "7", "8", "9">>

Digits == {DigitChars[i] : i \in DOMAIN DigitChars}

DigitVal(c) == (CHOOSE i \in DOMAIN DigitChars : DigitChars[i] = c) - 1

\* a loaded COP value: a number, a string or NaN
NumV(n) == [k |-> "num", n |-> n, s |-> <<>>]

StrV(s) == [k |-> "str", n |-> 0, s |-> s]

NaNV == [k |-> "nan", n |-> 0, s |-> <<>>]

-----------------------------------------------------------------------------
(* Parsing *)

\* the CSV reader's numeric inference on one cell
CsvNumeric(s) == Len(s) > 0 /\ \A i \in 1..Len(s) : s[i] \in Digits

\* float(x) accepts "nan" in any letter case
PyFloatIsNaN(s) ==
    /\ Len(s) = 3
    /\ s[1] \in {"n", "N"} /\ s[2] \in {"a", "A"} /\ s[3] \in {"n", "N"}

\* float(x) / int(x) accept digits with single underscores between them
PyFloatIsDecimal(s) ==
    /\ Len(s) > 0
    /\ s[1] \in Digits /\ s[Len(s)] \in Digits
    /\ \A i \in 1..Len(s) : s[i] \in Digits \cup {"_"}
    /\ \A i \in 1..(Len(s) - 1) : ~(s[i] = "_" /\ s[i + 1] = "_")

\* float(x) returns rather than raising ValueError
PyFloatOk(s) == PyFloatIsDecimal(s) \/ PyFloatIsNaN(s)

RECURSIVE DecimalValue(_)
DecimalValue(s) ==
    IF s = <<>> THEN 0
    ELSE LET front == SubSeq(s, 1, Len(s) - 1)
             c == s[Len(s)]
         IN IF c = "_" THEN DecimalValue(front)
            ELSE 10 * DecimalValue(front) + DigitVal(c)

\* pd.read_csv on the cop column: numeric when every present cell is, else object
ReadCopColumn(cells) ==
    LET numeric == \A i \in DOMAIN cells : cells[i] = EmptyCell \/ CsvNumeric(cells[i])
    IN [i \in DOMAIN cells |->
          IF cells[i] = EmptyCell THEN NaNV
          ELSE IF numeric THEN NumV(DecimalValue(cells[i]))
          ELSE StrV(cells[i])]

\* pd.to_numeric(errors="coerce") on one loaded value
ToNumericCoerce(v) ==
    IF v.k = "str"
    THEN IF CsvNumeric(v.s) THEN NumV(DecimalValue(v.s)) ELSE NaNV
    ELSE v

\* fillna(sentinel) on one value
FillNA(v, sentinel) == IF v = NA THEN sentinel ELSE v

-----------------------------------------------------------------------------
(* Load *)

\* every column is kept; the cop column gets its inferred dtype
read_csv(f) ==
    LET cops == ReadCopColumn([i \in DOMAIN f |-> f[i].cop])
    IN [i \in DOMAIN f |-> [idx |-> i - 1] @@ [f[i] EXCEPT !.cop = cops[i]]]

\* which pages fill missing languages with "unknown"
FillsLang(p) == p \in {"Actors", "Other_stats"}

\* which pages coerce the cop column to numeric
CoercesCop(p) == p = "Actors"

load_data(p, f) ==
    LET raw == read_csv(f)
    IN [i \in DOMAIN raw |->
          [raw[i] EXCEPT
             !.lang = IF FillsLang(p) THEN FillNA(@, "unknown") ELSE @,
             !.cop = IF CoercesCop(p) THEN ToNumericCoerce(@) ELSE @]]

-----------------------------------------------------------------------------
(* Sidebar options and mask *)

available_langs(d) == {d[i].lang : i \in DOMAIN d} \ {NA}

\* the distinct non-missing cop values, before conversion to Python numbers
CopUniques(d) == {d[i].cop : i \in DOMAIN d} \ {NaNV}

\* float(x) raises ValueError on a string it cannot parse
AvailableCopsRaises(d) == \E v \in CopUniques(d) : v.k = "str" /\ ~PyFloatOk(v.s)

\* int(x) if float(x).is_integer() else float(x): an integer, or nan for a
\* string that float() reads as nan
PyNumber(v) ==
    IF v.k = "num" THEN v
    ELSE IF PyFloatIsNaN(v.s) THEN NaNV
    ELSE NumV(DecimalValue(v.s))

available_cops(d) == {PyNumber(v) : v \in CopUniques(d)}

LangIsIn(r, sl) == r.lang \in sl

\* df["cop"].isin(pd.to_numeric(selected_cops, errors="coerce")): the selected
\* values are numbers already; isin finds a number equal to a stored number,
\* nan equal to a stored NaN, and no number equal to a stored string
CopIsIn(r, sc) == r.cop \in sc

\* a variant of Constrains where an empty multiselect still filters
ConstrainsAlways(selection) == TRUE

\* an empty multiselect is falsy: its constraint is skipped
Constrains(selection) == selection # {}

\* a variant of mask that joins the two dimensions with "or"
mask_any(d, sl, sc) ==
    [i \in DOMAIN d |->
        \/ (Constrains(sl) /\ LangIsIn(d[i], sl))
        \/ (Constrains(sc) /\ CopIsIn(d[i], sc))]

\* a variant of mask that reuses, by position, the mask built for the loaded
\* frame
mask_stale(d, sl, sc) ==
    [i \in DOMAIN d |->
        /\ (Constrains(sl) => LangIsIn(df[i], sl))
        /\ (Constrains(sc) => CopIsIn(df[i], sc))]

mask(d, sl, sc) ==
    [i \in DOMAIN d |->
        /\ (Constrains(sl) => LangIsIn(d[i], sl))
        /\ (Constrains(sc) => CopIsIn(d[i], sc))]

\* df[mask]
BoolIndex(d, m) ==
    LET F[i \in 0..Len(d)] ==
          IF i = 0 THEN <<>>
          ELSE IF m[i] THEN Append(F[i - 1], d[i]) ELSE F[i - 1]
    IN F[Len(d)]

\* a variant of CopyShares: the result is a view of df
ViewShares == TRUE

\* .copy(): the result owns its data
CopyShares == FALSE

-----------------------------------------------------------------------------
(* Derived column of the Entities view *)

Whitespace == {" "}

\* t matches \s*\([^)]+\)$ from its first character
SuffixMatches(t) ==
    \E k \in 0..Len(t) :
        /\ \A j \in 1..k : t[j] \in Whitespace
        /\ Len(t) >= k + 3
        /\ t[k + 1] = "("
        /\ t[Len(t)] = ")"
        /\ \A j \in (k + 2)..(Len(t) - 1) : t[j] # ")"

\* str.replace(r'\s*\([^)]+\)$', '', regex=True)
EntityLabel(e) ==
    LET starts == {i \in 1..Len(e) : SuffixMatches(SubSeq(e, i, Len(e)))}
    IN IF starts = {} THEN e
       ELSE LET first == CHOOSE i \in starts : \A j \in starts : i <= j
            IN SubSeq(e, 1, first - 1)

WithEntityLabel(d) ==
    [i \in DOMAIN d |-> d[i] @@ [entity_label |-> EntityLabel(d[i].entity)]]

-----------------------------------------------------------------------------
(* Page runs *)

\* nothing has been ranked yet
NoRanking ==
    /\ top_n = 0
    /\ top_authors = <<>>
    /\ selected_category_for_table = ""
    /\ table_df = <<>>
    /\ summary = [total_tweets |-> 0, total_authors |-> 0, total_categories |-> 0]
    /\ domain_counts = <<>>

\* no frequency view has been drawn yet
NoView ==
    /\ top_labels = <<>>
    /\ chart_df = <<>>
    /\ evolution = <<>>

FileRows(p) ==
    [lang : LangCells,
     cop : CopCells \cup {EmptyCell},
     entity : IF p = "Other_stats" THEN Entities ELSE {EmptyCell}]

FilesOf(p) == UNION {[1..n -> FileRows(p)] : n \in 0..MaxRows}

Init ==
    /\ page \in Pages
    /\ file \in FilesOf(page)
    /\ df = <<>>
    /\ pc = "start"
    /\ selected_langs = {}
    /\ selected_cops = {}
    /\ filtered_df = <<>>
    /\ filtered_twice = <<>>
    /\ shares = FALSE
    /\ NoRanking
    /\ stat_type = IF page = "Other_stats" THEN "Entities" ELSE ""
    /\ NoView

\* df = load_data()
Load ==
    /\ pc = "start"
    /\ df' = load_data(page, file)
    /\ pc' = "loaded"
    /\ UNCHANGED <<page, file, selected_langs, selected_cops, filtered_df, shares,
                   filtered_twice>>
    /\ UNCHANGED rankVars

\* apply_filters(df): the multiselects hold any subsets of their options
ApplyFilters ==
    /\ pc = "loaded"
    /\ ~AvailableCopsRaises(df)
    /\ \E sl \in SUBSET available_langs(df), sc \in SUBSET available_cops(df) :
          /\ selected_langs' = sl
          /\ selected_cops' = sc
          /\ filtered_df' = BoolIndex(df, mask(df, sl, sc))
    /\ shares' = CopyShares
    /\ pc' = "filtered"
    /\ UNCHANGED <<page, file, df, filtered_twice>>
    /\ UNCHANGED rankVars

\* building the COP options raises: the run ends with a traceback
OptionsRaise ==
    /\ pc = "loaded"
    /\ AvailableCopsRaises(df)
    /\ pc' = "ValueError"
    /\ UNCHANGED <<page, file, df, selected_langs, selected_cops, filtered_df, shares,
                   filtered_twice>>
    /\ UNCHANGED rankVars

\* filtered_df["entity_label"] = ... in the Entities view
AddEntityLabel ==
    /\ pc = "filtered"
    /\ page = "Other_stats"
    /\ filtered_df # <<>>
    /\ filtered_df' = WithEntityLabel(filtered_df)
    /\ df' = IF shares THEN WithEntityLabel(df) ELSE df
    /\ pc' = "labelled"
    /\ UNCHANGED <<page, file, selected_langs, selected_cops, shares, filtered_twice>>
    /\ UNCHANGED rankVars

\* the mask construction of apply_filters run on its own result with the same
\* selection: pd.Series(True, index=...), the two isin tests, [mask].copy()
FilterAgain ==
    /\ pc = "filtered"
    /\ filtered_twice' =
          BoolIndex(filtered_df, mask(filtered_df, selected_langs, selected_cops))
    /\ pc' = "refiltered"
    /\ UNCHANGED <<page, file, df, selected_langs, selected_cops, filtered_df, shares>>
    /\ UNCHANGED rankVars

\* every page: the filtered dataset is empty, a "No data matches the selected
\* filters" message is shown and the run ends
EmptyWarning ==
    /\ pc = "filtered"
    /\ filtered_df = <<>>
    /\ pc' = "no_data"
    /\ UNCHANGED <<filterVars, filtered_df, rankVars>>

\* a widget change reruns the script from the top
Rerun ==
    /\ pc \in {"filtered", "refiltered", "labelled", "ValueError", "no_data"}
    /\ pc' = "start"
    /\ df' = <<>>
    /\ filtered_df' = <<>>
    /\ filtered_twice' = <<>>
    /\ selected_langs' = {}
    /\ selected_cops' = {}
    /\ shares' = FALSE
    /\ UNCHANGED <<page, file>>
    /\ UNCHANGED rankVars

Next ==
    \/ Load
    \/ ApplyFilters
    \/ OptionsRaise
    \/ AddEntityLabel
    \/ FilterAgain
    \/ EmptyWarning
    \/ Rerun

Spec == Init /\ [][Next]_vars

-----------------------------------------------------------------------------
(* Properties of the dimension filter *)

\* the index labels of a frame's rows
Index(d) == {d[i].idx : i \in DOMAIN d}

\* the rows of d kept by a constraint on the language alone
OnlyLang(d, sl) == SelectSeq(d, LAMBDA r : r.lang \in sl)

\* the rows of d kept by a constraint on the edition alone
OnlyCop(d, sc) == SelectSeq(d, LAMBDA r : r.cop \in sc)

\* C1: an empty selection for a dimension places no constraint on it: the
\* filter returns the rows it returns with that dimension left out, whatever
\* the other dimension's selection is.
EmptySelectionIsNoConstraint ==
    pc = "filtered" =>
        /\ (selected_langs = {} /\ selected_cops = {} => filtered_df = df)
        /\ (selected_langs = {} /\ selected_cops # {} =>
               filtered_df = OnlyCop(df, selected_cops))
        /\ (selected_cops = {} /\ selected_langs # {} =>
               filtered_df = OnlyLang(df, selected_langs))

\* an empty selection was applied to a dataset that a constraint on that
\* dimension would have narrowed
EmptySelectionWitness ==
    /\ pc = "filtered"
    /\ selected_langs = {} /\ selected_cops # {}
    /\ Cardinality(available_langs(df)) = 2
    /\ filtered_df # <<>>
    /\ filtered_df # df

\* C2: with both selections non-empty the result is exactly the input rows
\* whose language is selected and whose edition is selected, in input order.
NonEmptySelectionIsConjunctive ==
    pc = "filtered" /\ selected_langs # {} /\ selected_cops # {} =>
        /\ Index(filtered_df) \subseteq Index(df)
        /\ \A j \in DOMAIN filtered_df :
              /\ filtered_df[j].lang \in selected_langs
              /\ filtered_df[j].cop \in selected_cops
        /\ filtered_df = OnlyCop(OnlyLang(df, selected_langs), selected_cops)

\* both dimensions are constrained, one row passes and another fails
NonEmptySelectionWitness ==
    /\ pc = "filtered"
    /\ selected_langs # {} /\ selected_cops # {}
    /\ Len(filtered_df) = 1
    /\ Len(df) = 2
    /\ df[2].lang \in selected_langs
    /\ df[2].cop.k = "num" /\ df[2].cop \notin selected_cops

\* the CSV cell of a loaded row holds a number
StoredNumeric(r) == CsvNumeric(file[r.idx + 1].cop)

\* C3: a row whose stored edition is missing or non-numeric is never in the
\* result when the edition selection is non-empty, on every page, coerced at
\* load or not.
UnparseableEditionNeverMatches ==
    pc = "filtered" /\ selected_cops # {} =>
        \A j \in DOMAIN filtered_df : StoredNumeric(filtered_df[j])

\* C4: a row whose language is missing in the file is kept by the default
\* language selection (all the offered languages) on every page.
MissingLanguageKept ==
    pc = "filtered" /\ selected_langs = available_langs(df) =>
        \A i \in DOMAIN file :
            /\ file[i].lang = NA
            /\ (selected_cops = {} \/ CopIsIn(df[i], selected_cops))
            => (i - 1) \in Index(filtered_df)

\* C10: the loaded dataset is the same after every step of a run.
DatasetNeverMutated ==
    pc # "start" => df = load_data(page, file)

\* the derived column was added to a non-empty filtered copy
DatasetNeverMutatedWitness ==
    /\ pc = "labelled"
    /\ filtered_df # <<>>
    /\ \A j \in DOMAIN filtered_df : "entity_label" \in DOMAIN filtered_df[j]
    /\ \A i \in DOMAIN df : "entity_label" \notin DOMAIN df[i]

\* C12: filtering is idempotent: the filter applied to its own result with
\* the same selection returns the same rows, whatever the stored editions are.
FilterIdempotent ==
    pc = "refiltered" => filtered_twice = filtered_df

\* the edition dimension is constrained, the loaded data holds a missing or
\* non-numeric edition, and the first pass dropped a row and kept another
FilterIdempotentWitness ==
    /\ pc = "refiltered"
    /\ selected_cops # {}
    /\ \E i \in DOMAIN df : ~StoredNumeric(df[i])
    /\ Len(df) = 2
    /\ Len(filtered_df) = 1
    /\ filtered_twice = filtered_df

-----------------------------------------------------------------------------
(* Aggregation and ranking (Actors page) *)

\* category and author labels, each listed in ascending (sorted) order
CategoryOrder == <<"A", "B">>

AuthorOrder == <<"x", "y">>

\* tweet ids
Ids == {7, 8}

category_label_all == "All categories"

top_n_default == 10

Pos(order, v) == CHOOSE i \in DOMAIN order : order[i] = v

Lt(order, a, b) == Pos(order, a) < Pos(order, b)

Min(a, b) == IF a < b THEN a ELSE b

Max(a, b) == IF a > b THEN a ELSE b

\* a variant of nunique that counts rows: agg("size")
size(d, I) == Cardinality(I)

\* ("id", "nunique") over the rows I of d
nunique(d, I) == Cardinality({d[i].id : i \in I})

\* the same sequence as an explicit tuple (so that TLC evaluates it once)
Rows(f) == f \o <<>>

\* the sequence of the members of K in ascending order of their rank
Ascending(K, rank) ==
    Rows([p \in 1..Cardinality(K) |->
            CHOOSE k \in K : Cardinality({k2 \in K : rank[k2] < rank[k]}) = p - 1])

\* df.groupby(["categories", "author.userName"], as_index=False)
\*   .agg(tweet_count=("id", "nunique")): one row per pair, sorted by the keys
grouped(d) ==
    LET K == {<<d[i].categories, d[i].author>> : i \in DOMAIN d}
        rank == [k \in K |->
                   Pos(CategoryOrder, k[1]) * (Len(AuthorOrder) + 1)
                   + Pos(AuthorOrder, k[2])]
        keys == Ascending(K, rank)
    IN Rows([p \in DOMAIN keys |->
               [categories |-> keys[p][1],
                author |-> keys[p][2],
                tweet_count |->
                   nunique(d, {i \in DOMAIN d :
                                 <<d[i].categories, d[i].author>> = keys[p]})]])

\* df.groupby("author.userName", as_index=False).agg(tweet_count=("id", "nunique"))
grouped_by_author(d) ==
    LET K == {d[i].author : i \in DOMAIN d}
        rank == [a \in K |-> Pos(AuthorOrder, a)]
        keys == Ascending(K, rank)
    IN Rows([p \in DOMAIN keys |->
               [author |-> keys[p],
                tweet_count |-> nunique(d, {i \in DOMAIN d : d[i].author = keys[p]})]])

\* a stable sort: before[i][j] says that row i sorts before row j; rows that
\* it does not order keep their relative order
StableSort(g, before) ==
    LET n == Len(g)
        first(i, j) == before[i][j] \/ (~before[j][i] /\ i < j)
        pos(i) == 1 + Cardinality({j \in 1..n : j # i /\ first(j, i)})
    IN Rows([p \in 1..n |-> g[CHOOSE i \in 1..n : pos(i) = p]])

\* sort_values(["categories", "tweet_count"], ascending=[True, False]):
\* several sort keys are sorted with a lexsort, which is stable
grouped_sorted(g) ==
    LET before == [i \in DOMAIN g |-> [j \in DOMAIN g |->
            \/ Lt(CategoryOrder, g[i].categories, g[j].categories)
            \/ /\ g[i].categories = g[j].categories
               /\ g[i].tweet_count > g[j].tweet_count]]
    IN StableSort(g, before)

\* the orders in which the rows I can come out of a sort on key: the next row
\* is any of those whose key is first among the rows left
RECURSIVE SortOrders(_, _, _)
SortOrders(key, ascending, I) ==
    IF I = {} THEN {<<>>}
    ELSE LET firsts == {i \in I : \A j \in I :
                           IF ascending THEN key[i] <= key[j] ELSE key[i] >= key[j]}
         IN UNION {{<<i>> \o t : t \in SortOrders(key, ascending, I \ {i})} :
                     i \in firsts}

\* sort_values on one key: the sort is kind="quicksort", which is not stable,
\* so rows of equal key come out in any order
\* (key is the column sorted on, one value per row of g)
SortValues(g, key, ascending) ==
    {Rows([i \in 1..Len(g) |-> g[o[i]]]) : o \in SortOrders(key, ascending, DOMAIN g)}

\* sort_values("tweet_count", ascending=False)
SortValuesDesc(g) == SortValues(g, [i \in DOMAIN g |-> g[i].tweet_count], FALSE)

\* DataFrame.head(n): the first n rows, or all but the last |n| when n < 0
head(g, n) ==
    IF n >= 0 THEN SubSeq(g, 1, Min(n, Len(g)))
    ELSE SubSeq(g, 1, Max(0, Len(g) + n))

\* a variant of GroupHead that truncates the whole frame, not each category
GlobalHead(g, n) == head(g, n)

\* groupby("categories").head(n): the first n rows of each category (all but
\* its last |n| when n < 0), in the frame's order
GroupHead(g, n) ==
    LET same(i) == {j \in DOMAIN g : g[j].categories = g[i].categories}
        cumcount(i) == Cardinality({j \in same(i) : j < i})
        keep(i) == IF n >= 0 THEN cumcount(i) < n
                   ELSE cumcount(i) < Cardinality(same(i)) + n
    IN BoolIndex(g, [i \in DOMAIN g |-> keep(i)])

compute_top_authors_by_category(d, n) ==
    IF d = <<>> THEN d
    ELSE GroupHead(grouped_sorted(grouped(d)), n)

\* render_summary's three KPIs
render_summary(d) ==
    [total_tweets |-> IF d # <<>> THEN nunique(d, DOMAIN d) ELSE 0,
     total_authors |-> Cardinality({d[i].author : i \in DOMAIN d}),
     total_categories |-> Cardinality({d[i].categories : i \in DOMAIN d})]

\* rename the columns and drop the category column
TableColumns(g) ==
    Rows([i \in DOMAIN g |-> [author |-> g[i].author, tweet_count |-> g[i].tweet_count]])

\* the table source for "All categories": any outcome of the overall ranking
AllAuthorsOutcomes(d, n) == {head(t, n) : t \in SortValuesDesc(grouped_by_author(d))}

\* the table source for one category
CategoryTable(d, c, n) ==
    SelectSeq(compute_top_authors_by_category(d, n), LAMBDA r : r.categories = c)

\* a variant of category_options that offers every known category
category_options_known(ta) == {CategoryOrder[i] : i \in DOMAIN CategoryOrder}

category_options(ta) == {ta[i].categories : i \in DOMAIN ta}

RankRows == [id : Ids,
             categories : {CategoryOrder[i] : i \in DOMAIN CategoryOrder},
             author : {AuthorOrder[i] : i \in DOMAIN AuthorOrder}]

InitRank ==
    /\ page = "Actors"
    /\ file = <<>>
    /\ df = <<>>
    /\ selected_langs = {}
    /\ selected_cops = {}
    /\ shares = FALSE
    /\ filtered_twice = <<>>
    /\ filtered_df \in UNION {[1..n -> RankRows] : n \in 0..MaxRankRows}
    /\ pc = "filtered"
    /\ NoRanking
    /\ stat_type = ""
    /\ NoView

\* main: top_authors = compute_top_authors_by_category(filtered_df, top_n_default)
MainTopAuthors ==
    /\ pc = "filtered"
    /\ filtered_df # <<>>
    /\ top_n' = top_n_default
    /\ top_authors' = compute_top_authors_by_category(filtered_df, top_n_default)
    /\ pc' = "ranked"
    /\ UNCHANGED <<filterVars, filtered_df, selected_category_for_table, table_df, summary,
                   domain_counts, viewVars>>

\* main: render_summary(filtered_df)
RenderSummary ==
    /\ pc = "ranked"
    /\ summary' = render_summary(filtered_df)
    /\ pc' = "summary"
    /\ UNCHANGED <<filterVars, filtered_df, top_n, top_authors,
                   selected_category_for_table, table_df, domain_counts, viewVars>>

\* main: the selectbox holds c, the slider n; build, sort and show the table
BuildTable ==
    /\ pc = "summary"
    /\ \E c \in {category_label_all} \cup category_options(top_authors),
          n \in 1..MaxTopN :
          /\ selected_category_for_table' = c
          /\ top_n' = n
          /\ \E table_source \in
                 IF c = category_label_all
                 THEN AllAuthorsOutcomes(filtered_df, n)
                 ELSE {CategoryTable(filtered_df, c, n)} :
                 table_df' \in SortValuesDesc(TableColumns(table_source))
    /\ pc' = "table"
    /\ UNCHANGED <<filterVars, filtered_df, top_authors, summary, domain_counts,
                   viewVars>>

\* a call of compute_top_authors_by_category(filtered_df, n) with any integer n
CallTopAuthors ==
    /\ pc = "filtered"
    /\ \E n \in (-1)..MaxTopN :
          /\ top_n' = n
          /\ top_authors' = compute_top_authors_by_category(filtered_df, n)
    /\ pc' = "called"
    /\ UNCHANGED <<filterVars, filtered_df, selected_category_for_table, table_df, summary,
                   domain_counts, viewVars>>

NextRank ==
    \/ EmptyWarning
    \/ MainTopAuthors
    \/ RenderSummary
    \/ BuildTable
    \/ CallTopAuthors

SpecRank == InitRank /\ [][NextRank]_vars

-----------------------------------------------------------------------------
(* Properties of the aggregation and the ranking *)

\* the distinct tweet ids of the filtered rows with their index in I
DistinctIds(I) == {filtered_df[i].id : i \in I}

\* the distinct-tweet count of author a within category c
PairCount(c, a) ==
    Cardinality(DistinctIds({i \in DOMAIN filtered_df :
        filtered_df[i].categories = c /\ filtered_df[i].author = a}))

\* the distinct-tweet count of author a over all categories
AuthorCount(a) ==
    Cardinality(DistinctIds({i \in DOMAIN filtered_df : filtered_df[i].author = a}))

AuthorsOf(c) ==
    {filtered_df[i].author :
        i \in {j \in DOMAIN filtered_df : filtered_df[j].categories = c}}

AllAuthors == {filtered_df[i].author : i \in DOMAIN filtered_df}

\* t is ordered by count descending, ties by author ascending
TiesByKeyAscending(t) ==
    \A i, j \in DOMAIN t :
        i < j =>
            \/ t[i].tweet_count > t[j].tweet_count
            \/ /\ t[i].tweet_count = t[j].tweet_count
               /\ Lt(AuthorOrder, t[i].author, t[j].author)

\* C5: a ranked table is ordered by count descending with ties by author
\* ascending, and of the authors tied across the top-N cut the smaller keys
\* are the ones kept (overall ranking and per-category ranking).
RankingTieBreak ==
    pc = "table" =>
        /\ TiesByKeyAscending(table_df)
        /\ selected_category_for_table = category_label_all =>
             \A i \in DOMAIN table_df :
                 \A a \in AllAuthors \ {table_df[j].author : j \in DOMAIN table_df} :
                     AuthorCount(a) = table_df[i].tweet_count =>
                         Lt(AuthorOrder, table_df[i].author, a)

\* C6: compute_top_authors_by_category never returns a result for n <= 0
\* (stated for a non-empty dataset, where the ranking is computed).
NonPositiveNRejected ==
    ~(pc = "called" /\ top_n <= 0 /\ filtered_df # <<>>)

\* the rows of the per-category ranking that belong to category c
KeptOf(c) == {i \in DOMAIN top_authors : top_authors[i].categories = c}

\* C8: for n >= 1 every category of the data contributes exactly
\* min(n, number of its authors) rows to the per-category ranking, one per
\* author, and no author left out of a category has a strictly higher
\* distinct-tweet count than one that is kept.
PerCategoryTruncation ==
    pc \in {"called", "ranked"} /\ top_n >= 1 =>
        /\ \A i \in DOMAIN top_authors :
              top_authors[i].author \in AuthorsOf(top_authors[i].categories)
        /\ \A i \in DOMAIN filtered_df :
              LET c == filtered_df[i].categories
                  kept == {top_authors[k].author : k \in KeptOf(c)}
              IN /\ Cardinality(KeptOf(c)) = Min(top_n, Cardinality(AuthorsOf(c)))
                 /\ Cardinality(kept) = Cardinality(KeptOf(c))
                 /\ \A a \in AuthorsOf(c) \ kept :
                       \A b \in kept : PairCount(c, a) <= PairCount(c, b)

\* with n = 1 two categories each keep their own top author, one of them
\* dropping an author with a strictly lower count
PerCategoryTruncationWitness ==
    /\ pc = "called"
    /\ top_n = 1
    /\ Len(top_authors) = 2
    /\ top_authors[1].categories # top_authors[2].categories
    /\ \E a \in AuthorsOf(top_authors[1].categories) :
          PairCount(top_authors[1].categories, a) < top_authors[1].tweet_count

\* C9: every (category, author) count, every overall per-author count and
\* the total-tweets KPI is the number of distinct ids of the matching rows.
DistinctIdMetric ==
    /\ pc \in {"called", "ranked", "summary", "table"} =>
          \A i \in DOMAIN top_authors :
              top_authors[i].tweet_count =
                  PairCount(top_authors[i].categories, top_authors[i].author)
    /\ pc = "table" /\ selected_category_for_table = category_label_all =>
          \A i \in DOMAIN table_df :
              table_df[i].tweet_count = AuthorCount(table_df[i].author)
    /\ pc \in {"summary", "table"} =>
          summary.total_tweets = Cardinality(DistinctIds(DOMAIN filtered_df))

\* one tweet id carried by two rows of different categories counts once in
\* each category, once for its author and once in the total
DistinctIdMetricWitness ==
    /\ pc = "table"
    /\ selected_category_for_table = category_label_all
    /\ Len(filtered_df) = 2
    /\ filtered_df[1].id = filtered_df[2].id
    /\ filtered_df[1].categories # filtered_df[2].categories
    /\ filtered_df[1].author = filtered_df[2].author
    /\ Len(top_authors) = 2
    /\ top_authors[1].tweet_count = 1 /\ top_authors[2].tweet_count = 1
    /\ Len(table_df) = 1 /\ table_df[1].tweet_count = 1
    /\ summary.total_tweets = 1

\* C16: the categories offered by the dropdown, taken from the ranking with
\* the default N, are the categories of the ranking with the slider's N, and
\* the table of an offered category has between 1 and N rows, each an author
\* of that category with its count.
OfferedCategoryHasRows ==
    pc = "table" =>
        /\ category_options(top_authors) =
              category_options(compute_top_authors_by_category(filtered_df, top_n))
        /\ selected_category_for_table # category_label_all =>
              /\ selected_category_for_table \in category_options(top_authors)
              /\ Len(table_df) >= 1
              /\ Len(table_df) <= top_n
              /\ \A i \in DOMAIN table_df :
                    /\ table_df[i].author \in AuthorsOf(selected_category_for_table)
                    /\ table_df[i].tweet_count =
                          PairCount(selected_category_for_table, table_df[i].author)

\* the slider is below the default and below the number of authors of the
\* chosen category, which is not the first one
OfferedCategoryHasRowsWitness ==
    /\ pc = "table"
    /\ top_n = 1
    /\ selected_category_for_table = CategoryOrder[2]
    /\ Cardinality(AuthorsOf(CategoryOrder[1])) >= 1
    /\ Cardinality(AuthorsOf(CategoryOrder[2])) = 2
    /\ Len(table_df) = 1

-----------------------------------------------------------------------------
(* Cited web domains *)

DomainChars == {"a", "b", ",", " "}

\* the non-missing extracted_domains cells
DomainCells == UNION {[1..n -> DomainChars] : n \in 1..MaxCellLen}

\* distinct domains of a large web-link table
MaxDomains == 21

n_domains_min == 5

n_domains_default == 10

webdomains_head == 20

\* str.split(","): the pieces between the commas, empty pieces included
RECURSIVE split(_)
split(s) ==
    LET commas == {i \in DOMAIN s : s[i] = ","}
    IN IF commas = {} THEN <<s>>
       ELSE LET i == CHOOSE c \in commas : \A c2 \in commas : c <= c2
            IN <<SubSeq(s, 1, i - 1)>> \o split(SubSeq(s, i + 1, Len(s)))

\* str.strip(): drop the leading and the trailing whitespace
RECURSIVE strip(_)
strip(t) ==
    IF t = <<>> THEN t
    ELSE IF t[1] \in Whitespace THEN strip(Tail(t))
    ELSE IF t[Len(t)] \in Whitespace THEN strip(SubSeq(t, 1, Len(t) - 1))
    ELSE t

\* the column without its missing cells: dropna()
RECURSIVE dropna(_)
dropna(col) ==
    IF col = <<>> THEN <<>>
    ELSE IF Head(col) = EmptyCell THEN dropna(Tail(col))
    ELSE <<Head(col)>> \o dropna(Tail(col))

\* .str.split(",").explode().str.strip() over a column of present cells
RECURSIVE explode_strip(_)
explode_strip(col) ==
    IF col = <<>> THEN <<>>
    ELSE LET pieces == split(Head(col))
         IN Rows([i \in DOMAIN pieces |-> strip(pieces[i])]) \o explode_strip(Tail(col))

\* value_counts(): one (value, count) row per distinct value, listed in the
\* order of first appearance; the caller's sort decides the final order
value_counts(values) ==
    LET K == {values[i] : i \in DOMAIN values}
        seen == [k \in K |-> CHOOSE i \in DOMAIN values :
                    values[i] = k /\ \A j \in 1..(i - 1) : values[j] # k]
        one == Ascending(K, seen)
    IN Rows([p \in DOMAIN one |->
               [domain |-> one[p],
                count |-> Cardinality({i \in DOMAIN values : values[i] = one[p]})]])

Column(d) == Rows([i \in DOMAIN d |-> d[i].extracted_domains])

\* the "count" column of a value_counts result
Counts(vc) == Rows([i \in DOMAIN vc |-> vc[i].count])

\* Most_active_users: all_domains.value_counts(ascending=True).head(20)
MostActiveDomainCounts(d) ==
    LET all_domains == explode_strip(dropna(Column(d)))
        vc == value_counts(all_domains)
    IN {head(t, webdomains_head) : t \in SortValues(vc, Counts(vc), TRUE)}

\* Actors: filtered_webdomains["extracted_domains"].value_counts().head(n_domains)
ActorsTopDomainsOutcomes(d, n) ==
    LET vc == value_counts(dropna(Column(d)))
    IN {head(t, n) : t \in SortValues(vc, Counts(vc), FALSE)}

\* the name of the i-th domain of a large table
DomainName(i) == <<"d", DigitChars[(i \div 10) + 1], DigitChars[(i % 10) + 1]>>

\* a cell citing the domain tok c times
RECURSIVE Repeat(_, _)
Repeat(tok, c) == IF c <= 1 THEN tok ELSE tok \o <<",">> \o Repeat(tok, c - 1)

\* tables of n domains cited 1, 2, ..., n times, one row per domain
LargeFrames ==
    {Rows([i \in 1..n |->
             [extracted_domains |-> Repeat(DomainName(i), ((i + shift) % n) + 1)]]) :
        n \in (webdomains_head - 1)..MaxDomains, shift \in 0..1}

InitDomains ==
    /\ page \in {"Most_active_users", "Actors"}
    /\ file = <<>>
    /\ df = <<>>
    /\ selected_langs = {}
    /\ selected_cops = {}
    /\ shares = FALSE
    /\ filtered_twice = <<>>
    /\ filtered_df \in
          (IF page = "Most_active_users" THEN LargeFrames ELSE {}) \cup
          UNION {[1..n -> [extracted_domains : DomainCells \cup {EmptyCell}]] :
                   n \in 0..MaxDomainRows}
    /\ pc = "filtered"
    /\ NoRanking
    /\ stat_type = ""
    /\ NoView

\* Most_active_users: the "Most Frequent Webdomains" section; the bar chart is
\* drawn unless domain_counts is empty, and then "No webdomains found for the
\* selected filters." is shown in its place
WebdomainsDashboard ==
    /\ pc = "filtered"
    /\ page = "Most_active_users"
    /\ filtered_df # <<>>
    /\ domain_counts' \in MostActiveDomainCounts(filtered_df)
    /\ pc' = IF domain_counts' = <<>> THEN "no_webdomains" ELSE "domains"
    /\ UNCHANGED <<filterVars, filtered_df, top_n, top_authors,
                   selected_category_for_table, table_df, summary, viewVars>>

\* Actors: the "Most frequent webdomains cited in tweets" section; here
\* filtered_df stands for filtered_webdomains, the web-link table under the
\* same selection, and the table is handed to st.dataframe whatever it holds
ActorsTopDomains ==
    /\ pc = "filtered"
    /\ page = "Actors"
    /\ \E n \in {n_domains_min, n_domains_default} :
          domain_counts' \in ActorsTopDomainsOutcomes(filtered_df, n)
    /\ pc' = "domains"
    /\ UNCHANGED <<filterVars, filtered_df, top_n, top_authors,
                   selected_category_for_table, table_df, summary, viewVars>>

\* Most_active_users: "No data for most active users matches the selected filters."
MostActiveNoData ==
    /\ page = "Most_active_users"
    /\ EmptyWarning

NextDomains ==
    \/ WebdomainsDashboard
    \/ ActorsTopDomains
    \/ MostActiveNoData

SpecDomains == InitDomains /\ [][NextDomains]_vars

-----------------------------------------------------------------------------
(* Properties of the domain counts *)

\* the trimmed, non-empty tokens of the filtered cells, one per occurrence
NonEmpty(tokens) == SelectSeq(tokens, LAMBDA t : t # <<>>)

DomainOccurrences == NonEmpty(explode_strip(dropna(Column(filtered_df))))

\* C7: the domain counts have one key per distinct trimmed non-empty token
\* of the filtered cells, with the number of its occurrences, and no empty
\* key, in every view that counts cited web domains.
ExplodeAndCount ==
    pc = "domains" =>
        /\ \A i \in DOMAIN domain_counts : domain_counts[i].domain # <<>>
        /\ {domain_counts[i].domain : i \in DOMAIN domain_counts} =
              {DomainOccurrences[j] : j \in DOMAIN DomainOccurrences}
        /\ \A i \in DOMAIN domain_counts :
              domain_counts[i].count =
                  Cardinality({j \in DOMAIN DomainOccurrences :
                                 DomainOccurrences[j] = domain_counts[i].domain})

\* the number of occurrences of the domain x in the filtered cells
OccurrenceCount(x) ==
    Cardinality({j \in DOMAIN DomainOccurrences : DomainOccurrences[j] = x})

\* C13: the "Most Frequent Webdomains" view of the most-active-users page
\* shows at most 20 domains, and no domain left out of it occurs strictly
\* more often than a domain that is shown.
MostFrequentWebdomains ==
    pc = "domains" /\ page = "Most_active_users" =>
        LET shown == {domain_counts[i].domain : i \in DOMAIN domain_counts}
            cited == {DomainOccurrences[j] : j \in DOMAIN DomainOccurrences}
        IN /\ Len(domain_counts) <= webdomains_head
           /\ \A x \in cited \ shown :
                 \A i \in DOMAIN domain_counts :
                     OccurrenceCount(x) <= domain_counts[i].count

-----------------------------------------------------------------------------
(* Frequency views (Other stats page) *)

\* distinct labels of a frequency table
MaxLabels == 6

n_entities_min == 5

n_entities_default == 10

StatTypes == {"Entities", "Words", "Verbs", "Hashtags"}

\* the column of the frequency table that names what is counted
key_column(t) ==
    CASE t = "Entities" -> "entity"
      [] t = "Words" -> "word"
      [] t = "Verbs" -> "verb"
      [] OTHER -> "hashtag"

\* the column the view groups by: the Entities view derives it, the other
\* views group by the key column itself
label_column(t) == IF t = "Entities" THEN "entity_label" ELSE key_column(t)

\* the characters of the labels in code-point order
CharOrder ==
    <<" ", "(", ")", "0", "1", "2", "3", "4", "5", "6", "7", "8", "9",
      "A", "N", "O", "_", "a", "b", "c", "d", "e">>

\* string comparison a < b
RECURSIVE StrLt(_, _)
StrLt(a, b) ==
    IF b = <<>> THEN FALSE
    ELSE IF a = <<>> THEN TRUE
    ELSE IF Head(a) = Head(b) THEN StrLt(Tail(a), Tail(b))
    ELSE Lt(CharOrder, Head(a), Head(b))

\* the sum of the frequency column over the rows I of d
RECURSIVE SumFrequency(_, _)
SumFrequency(d, I) ==
    IF I = {} THEN 0
    ELSE LET i == CHOOSE j \in I : TRUE
         IN d[i].frequency + SumFrequency(d, I \ {i})

\* filtered_df.groupby(col, as_index=False)["frequency"].sum(): one row per
\* label, sorted by the label
frequency_totals(d, col) ==
    LET K == {d[i][col] : i \in DOMAIN d}
        rank == [k \in K |-> Cardinality({k2 \in K : StrLt(k2, k)})]
        keys == Ascending(K, rank)
    IN Rows([p \in DOMAIN keys |->
               [label |-> keys[p],
                frequency |-> SumFrequency(d, {i \in DOMAIN d : d[i][col] = keys[p]})]])

\* a variant of totals_sorted that ranks the smallest totals first
totals_sorted_ascending(t) ==
    SortValues(t, [i \in DOMAIN t |-> t[i].frequency], TRUE)

\* totals.sort_values("frequency", ascending=False)
totals_sorted(t) ==
    SortValues(t, [i \in DOMAIN t |-> t[i].frequency], FALSE)

\* .head(n)[col].tolist(), for every outcome of the sort
TopLabelsOutcomes(d, col, n) ==
    {LET h == head(t, n) IN Rows([i \in DOMAIN h |-> h[i].label]) :
        t \in totals_sorted(frequency_totals(d, col))}

\* filtered_df[filtered_df[col].isin(labels)]
RowsOfLabels(d, col, labels) ==
    BoolIndex(d, [i \in DOMAIN d |-> \E p \in DOMAIN labels : labels[p] = d[i][col]])

LabelName(i) == <<"e", DigitChars[i + 1]>>

\* the entity type that the Entities view strips from the label
TypeSuffix == <<" ", "(", "O", ")">>

\* one row of a frequency table
FrequencyRow(t, name, f, c) ==
    (key_column(t) :> name) @@ [frequency |-> f, cop |-> NumV(c)]

\* frequency tables of n labels: label i has frequency i in edition 26 and,
\* when extra[i] > 0, frequency extra[i] in edition 27 (an entity carries its
\* type there)
FrequencyFrame(t, n, extra) ==
    LET second(i) == IF t = "Entities" THEN LabelName(i) \o TypeSuffix ELSE LabelName(i)
        rows == [j \in 1..(2 * n) |->
                   IF j <= n THEN FrequencyRow(t, LabelName(j), j, 26)
                   ELSE FrequencyRow(t, second(j - n), extra[j - n], 27)]
    IN BoolIndex(rows, [j \in 1..(2 * n) |-> j <= n \/ extra[j - n] > 0])

FrequencyFrames(t) ==
    {<<>>} \cup
    UNION {{FrequencyFrame(t, n, extra) : extra \in [1..n -> 0..1]} :
             n \in (n_entities_min - 1)..MaxLabels}

InitStats ==
    /\ page = "Other_stats"
    /\ file = <<>>
    /\ df = <<>>
    /\ selected_langs = {}
    /\ selected_cops = {}
    /\ shares = FALSE
    /\ filtered_twice = <<>>
    /\ stat_type \in StatTypes
    /\ filtered_df \in FrequencyFrames(stat_type)
    /\ pc = "filtered"
    /\ NoRanking
    /\ NoView

\* main, Entities branch: the slider, the entity_label column, the top-N
\* labels by total frequency and the rows of those labels
TopEntities ==
    /\ pc = "filtered"
    /\ page = "Other_stats"
    /\ stat_type = "Entities"
    /\ filtered_df # <<>>
    /\ filtered_df' = WithEntityLabel(filtered_df)
    /\ \E n_entities \in {n_entities_min, n_entities_default} :
          /\ top_n' = n_entities
          /\ top_labels' \in TopLabelsOutcomes(filtered_df', "entity_label", n_entities)
    /\ chart_df' = RowsOfLabels(filtered_df', "entity_label", top_labels')
    /\ pc' = "charted"
    /\ UNCHANGED <<filterVars, top_authors, selected_category_for_table, table_df,
                   summary, domain_counts, stat_type, evolution>>

\* main, Words / Verbs / Hashtags branches
TopWords ==
    /\ pc = "filtered"
    /\ page = "Other_stats"
    /\ stat_type \in {"Words", "Verbs", "Hashtags"}
    /\ filtered_df # <<>>
    /\ \E n_words \in {n_entities_min, n_entities_default} :
          /\ top_n' = n_words
          /\ top_labels' \in TopLabelsOutcomes(filtered_df, key_column(stat_type), n_words)
    /\ chart_df' = RowsOfLabels(filtered_df, key_column(stat_type), top_labels')
    /\ pc' = "charted"
    /\ UNCHANGED <<filterVars, filtered_df, top_authors, selected_category_for_table,
                   table_df, summary, domain_counts, stat_type, evolution>>

NextStats ==
    \/ TopEntities
    \/ TopWords
    \/ EmptyWarning

SpecStats == InitStats /\ [][NextStats]_vars

-----------------------------------------------------------------------------
(* Properties of the frequency views *)

\* the labels of the filtered rows
FilteredLabels == {filtered_df[i][label_column(stat_type)] : i \in DOMAIN filtered_df}

\* the filtered rows of label x
LabelRows(x) == {i \in DOMAIN filtered_df : filtered_df[i][label_column(stat_type)] = x}

\* C14: the charted labels are min(N, number of distinct labels) labels of
\* the filtered data, no label left out has a strictly larger summed
\* frequency than a charted one, and the chart holds every filtered row of
\* each charted label, so that a bar's total is the label's summed frequency.
TopNThenStacked ==
    pc = "charted" =>
        LET col == label_column(stat_type)
            charted == {top_labels[p] : p \in DOMAIN top_labels}
        IN /\ charted \subseteq FilteredLabels
           /\ Cardinality(charted) = Min(top_n, Cardinality(FilteredLabels))
           /\ {chart_df[j][col] : j \in DOMAIN chart_df} = charted
           /\ \A x \in FilteredLabels \ charted : \A y \in charted :
                 SumFrequency(filtered_df, LabelRows(x)) <=
                     SumFrequency(filtered_df, LabelRows(y))
           /\ \A y \in charted :
                 /\ SelectSeq(chart_df, LAMBDA r : r[col] = y) =
                        SelectSeq(filtered_df, LAMBDA r : r[col] = y)
                 /\ SumFrequency(chart_df, {j \in DOMAIN chart_df : chart_df[j][col] = y}) =
                        SumFrequency(filtered_df, LabelRows(y))

\* six labels, N = 5: one label is left out, with a strictly smaller total
\* than every charted one, and a charted label is stacked from two editions
TopNThenStackedWitness ==
    /\ pc = "charted"
    /\ top_n = n_entities_min
    /\ Cardinality(FilteredLabels) = n_entities_min + 1
    /\ Len(top_labels) = n_entities_min
    /\ \E x \in FilteredLabels :
          /\ \A p \in DOMAIN top_labels : top_labels[p] # x
          /\ \A p \in DOMAIN top_labels :
                SumFrequency(filtered_df, LabelRows(x)) <
                    SumFrequency(filtered_df, LabelRows(top_labels[p]))
    /\ \E p \in DOMAIN top_labels : Cardinality(LabelRows(top_labels[p])) = 2

-----------------------------------------------------------------------------
(* Chronological evolution charts (Categories and Most active users pages) *)

\* createdAt values, listed in ascending order
DateOrder == <<"d1", "d2">>

\* rows of the categorization CSV of these pages
EvolutionFileRows ==
    {[lang |-> l, cop |-> c, entity |-> EmptyCell,
      createdAt |-> DateOrder[k[1]], categories |-> CategoryOrder[k[2]]] :
        l \in LangCells,
        c \in {<<"2", "6">>, <<"2", "7">>, <<"N", "A", "N">>, EmptyCell},
        k \in {<<1, 1>>, <<2, 1>>, <<1, 2>>}}

\* lang_mask: the language test alone
lang_mask(d, sl) == [i \in DOMAIN d |-> Constrains(sl) => LangIsIn(d[i], sl)]

\* a variant of df_lang_filtered that charts the fully filtered rows
df_fully_filtered(d, sl) == BoolIndex(d, mask(d, sl, selected_cops))

\* df_lang_filtered = df[lang_mask].copy()
df_lang_filtered(d, sl) == BoolIndex(d, lang_mask(d, sl))

\* the order of sorted() on the cop values of one column: numbers by value,
\* strings by code point
CopLt(a, b) ==
    IF a.k = "num" /\ b.k = "num" THEN a.n < b.n ELSE StrLt(a.s, b.s)

\* sorted(df_lang_filtered["cop"].dropna().unique())
available_cops_for_chart(dl) ==
    LET K == CopUniques(dl)
        rank == [k \in K |-> Cardinality({k2 \in K : CopLt(k2, k)})]
    IN Ascending(K, rank)

\* cop_df.groupby(["createdAt", "categories"]).size()
\*   .reset_index(name="tweet_count"): one row per pair, sorted by the keys
evolution_counts(cop_df) ==
    LET K == {<<cop_df[i].createdAt, cop_df[i].categories>> : i \in DOMAIN cop_df}
        rank == [k \in K |->
                   Pos(DateOrder, k[1]) * (Len(CategoryOrder) + 1)
                   + Pos(CategoryOrder, k[2])]
        keys == Ascending(K, rank)
    IN Rows([p \in DOMAIN keys |->
               [createdAt |-> keys[p][1],
                categories |-> keys[p][2],
                tweet_count |->
                   Cardinality({i \in DOMAIN cop_df :
                       <<cop_df[i].createdAt, cop_df[i].categories>> = keys[p]})]])

\* the loop over available_cops_for_chart: one table per edition
evolution_charts(d, sl) ==
    LET dl == df_lang_filtered(d, sl)
        cops == available_cops_for_chart(dl)
    IN Rows([p \in DOMAIN cops |->
               [cop |-> cops[p],
                evolution |->
                   evolution_counts(SelectSeq(dl, LAMBDA r : r.cop = cops[p]))]])

InitEvolution ==
    /\ page \in {"Categories", "Most_active_users"}
    /\ file \in UNION {[1..n -> EvolutionFileRows] : n \in 0..MaxRows}
    /\ df = <<>>
    /\ pc = "start"
    /\ selected_langs = {}
    /\ selected_cops = {}
    /\ filtered_df = <<>>
    /\ filtered_twice = <<>>
    /\ shares = FALSE
    /\ NoRanking
    /\ stat_type = ""
    /\ NoView

\* the "Chronological evolution of tweets per category (per COP)" section,
\* inside the branch taken when filtered_df is not empty
EvolutionCharts ==
    /\ pc = "filtered"
    /\ page \in {"Categories", "Most_active_users"}
    /\ filtered_df # <<>>
    /\ evolution' = evolution_charts(df, selected_langs)
    /\ pc' = "charts"
    /\ UNCHANGED <<filterVars, filtered_df, top_n, top_authors,
                   selected_category_for_table, table_df, summary, domain_counts,
                   stat_type, top_labels, chart_df>>

NextEvolution ==
    \/ Load
    \/ ApplyFilters
    \/ EvolutionCharts
    \/ EmptyWarning

SpecEvolution == InitEvolution /\ [][NextEvolution]_vars

-----------------------------------------------------------------------------
(* Properties of the evolution charts *)

\* the loaded rows that match the language selection
LanguageRows == {i \in DOMAIN df : selected_langs = {} \/ df[i].lang \in selected_langs}

\* the loaded rows of edition c and of the pair (t, g) that match the
\* language selection
PairRows(c, t, g) ==
    {i \in LanguageRows : df[i].cop = c /\ df[i].createdAt = t /\ df[i].categories = g}

\* C15: the evolution charts follow the language selection only: when the
\* filtered dataset is non-empty there is one chart per non-missing edition
\* of the language-filtered rows, selected or not, holding for each
\* (createdAt, category) pair of that edition its number of rows; when the
\* filtered dataset is empty there is no chart.
EvolutionLanguageOnly ==
    /\ (filtered_df = <<>> => evolution = <<>>)
    /\ (pc = "charts" =>
          LET editions == {df[i].cop : i \in LanguageRows} \ {NaNV}
          IN /\ filtered_df # <<>>
             /\ Len(evolution) = Cardinality(editions)
             /\ {evolution[p].cop : p \in DOMAIN evolution} = editions
             /\ \A p \in DOMAIN evolution :
                   LET c == evolution[p].cop
                       t == evolution[p].evolution
                   IN /\ \A q \in DOMAIN t :
                            t[q].tweet_count =
                                Cardinality(PairRows(c, t[q].createdAt, t[q].categories))
                      /\ \A i \in LanguageRows :
                            df[i].cop = c =>
                                \E q \in DOMAIN t :
                                    /\ t[q].createdAt = df[i].createdAt
                                    /\ t[q].categories = df[i].categories
                      /\ \A q1, q2 \in DOMAIN t :
                            q1 # q2 =>
                                <<t[q1].createdAt, t[q1].categories>> #
                                    <<t[q2].createdAt, t[q2].categories>>)

\* an edition outside the COP selection has its chart
EvolutionLanguageOnlyWitness ==
    /\ pc = "charts"
    /\ selected_cops # {}
    /\ Len(evolution) = 2
    /\ \E p \in DOMAIN evolution :
          /\ evolution[p].cop \notin selected_cops
          /\ evolution[p].evolution # <<>>

-----------------------------------------------------------------------------
(* Empty results *)

\* C11: an empty result is a valid state and never an error: building the
\* filter does not raise, the ranking of an empty dataset is empty, and a
\* view is rendered only from a non-empty table; an empty one ends in a
\* "no data" message instead.
EmptyResultShowsNoData ==
    /\ pc # "ValueError"
    /\ (pc = "called" /\ filtered_df = <<>> => top_authors = <<>>)
    /\ (pc \in {"labelled", "ranked", "summary", "table"} => filtered_df # <<>>)
    /\ (pc = "table" => table_df # <<>>)
    /\ (pc = "domains" => domain_counts # <<>>)

=============================================================================
